---- MODULE Spec2Model ----
(***************************************************************************)
(* Steam playtime collector: snapshot stores (storage.py, pg_storage.py),  *)
(* session inference (analyzer.py, frontend_api.py), batch inference and   *)
(* file export (analyzer.infer_sessions_for_all, export_sessions.py,       *)
(* web_export.py), the polling and run-once collectors (collector.py,      *)
(* backend_run_once_pg.py), the worker-pool collector with its change     *)
(* gate and its lock file (backend/collector.py), the served query with    *)
(* its limit (frontend_api.get_sessions) and the dashboard analyzer        *)
(* (frontend/app.py).                                                      *)
(***************************************************************************)
EXTENDS Integers, Sequences, FiniteSets, TLC

\* ------------------------------------------------------------------ bounds
\* Rows the playtime_snapshots table may hold.
MaxRows == 3
\* Largest cumulative playtime (minutes) a source reports.
MaxPlaytime == 2


\* ------------------------------------------------------------- value domains
\* Python's None.
None == "None"
\* 64-bit steamids, as texts of decimal digits.
SteamIds == {<<7, 1>>, <<7, 2>>}
Apps == {1, 2}
\* OwnedGame.name / game_name: Optional[str].
Names == {None, "Portal"}
Playtimes == 0..MaxPlaytime

\* The name the Steam API reports for an app: app 1 has store information,
\* app 2 has none (steam_api.py:64 then yields None).
AppName(appid) == IF appid = 1 THEN "Portal" ELSE None

\* The apps an account owns.
Library(steamid) == IF steamid = <<7, 1>> THEN {1, 2} ELSE {1}

\* steam_api.OwnedGame
OwnedGame == {[appid |-> a, name |-> AppName(a), playtime_forever |-> p] :
                 a \in Apps, p \in Playtimes}

\* What get_owned_games(steamid) may return: entries for owned games, one
\* per appid, in ascending appid order.
GameLists(steamid) ==
    LET Mine == {g \in OwnedGame : g.appid \in Library(steamid)}
    IN {<<>>} \cup {<<g>> : g \in Mine}
              \cup {<<p[1], p[2]>> : p \in {q \in Mine \X Mine : q[1].appid < q[2].appid}}

\* ------------------------------------------------------------------- state
VARIABLES
    program,      \* the deployment that runs: "sqlite" (storage.py, analyzer.py,
                  \* export_sessions.py), "pg" (pg_storage.py, frontend_api.py) or
                  \* "pool" (backend/collector.py)
    table,        \* playtime_snapshots, in insertion (id) order
    called,       \* the last call made on the store or the inference engine
    snapshots,    \* what fetch_snapshots_ordered returned to that call
    sessions,     \* the session list that call returned
    all_pc,       \* infer_sessions_for_all: "idle" | "running" | "returned" | "raised"
    all_steamids, \* its steamids argument
    all_i,        \* the position of its loop in steamids
    all_sessions, \* its all_sessions list
    all_failed,   \* the steamids whose store read raised
    game_snapshots, \* backend/collector.py: per player_id, the committed rows
                  \* (games_data) of game_snapshots in snapshot_time order
    main_pc,      \* collector.main: "start" | "pool" | "done"
    wpc,          \* per unit of work: "none" | "queued" | "scrape" | "compare" |
                  \* "save" | "done"
    conn,         \* per unit of work, its collector's conn: "none" | "open" |
                  \* "aborted" (open, with a failed transaction that was not
                  \* rolled back, or lost) | "closed"
    games_data,   \* per unit of work, the scraped game list
    outcome,      \* per unit of work, the path it ended on
    result,       \* per unit of work, what collect_player_data returned
    counted,      \* the futures as_completed has yielded
    success_count,
    fail_count,
    run_players,  \* run_collector / run-once main: cfg.steam.players
    resolve_answer, \* what ResolveVanityURL answers for a vanity URL
    run_pc,       \* "setup" | "check" | "fetch" | "sleep" | "stopped" | "done" |
                  \* "raised"
    run_steamids, \* the values of the dict _ensure_steamids returned
    run_i,        \* the position of the for loop in run_steamids
    stop_flag,    \* stop_flag["stop"]
    stop_seen,    \* where the run was when the stop signal arrived
    run_cycles,   \* polling cycles started
    fetch_calls,  \* get_owned_games calls made
    run_error,    \* "none", or where the exception that ended the run was
                  \* raised: "setup" | "fetch"
    gate_old,     \* is_data_changed: its old_data argument
    gate_new,     \* its new_data argument
    gate_out,     \* "none" | "changed" | "unchanged" | "raised"
    response,     \* frontend_api.get_sessions: the list it returned
    lock_file,    \* backend/collector.py, .collector.lock: <<>> when the file
                  \* does not exist, else <<[owner, age]>>: the process that
                  \* wrote it and whether its mtime is within 300 s ("fresh")
                  \* or older ("stale")
    storage_open, \* run_collector / run-once main: the store connection it
                  \* opened is still open
    client_open,  \* the SteamApiClient it opened is still open
    dash_snapshots, \* frontend/app.py, calculate_playtime_changes: its argument
    dash_records, \* the list it returned
    dash_pc,      \* "none" | "returned"
    lpc           \* per collector process, where its main is: "start" |
                  \* "inspect" | "create" | "verify" | "pool", or how it ended:
                  \* "refused" | "create_failed" | "cookie_invalid" |
                  \* "verify_raised" | "completed" | "pool_error"

storeVars == <<program, table, called, snapshots, sessions>>
allVars == <<all_pc, all_steamids, all_i, all_sessions, all_failed>>
poolVars == <<game_snapshots, main_pc, wpc, conn, games_data, outcome, result,
              counted, success_count, fail_count>>
runVars == <<run_players, resolve_answer, run_pc, run_steamids, run_i, stop_flag,
             stop_seen, run_cycles, fetch_calls, run_error>>
gateVars == <<gate_old, gate_new, gate_out>>
apiVars == <<response>>
lockVars == <<lock_file, lpc>>
resVars == <<storage_open, client_open>>
dashVars == <<dash_snapshots, dash_records, dash_pc>>
moreVars == <<apiVars, lockVars, resVars, dashVars>>

\* ------------------------------------------------------------ conversions
\* datetime.isoformat() of a whole-second UTC time: the seconds field is
\* written as two zero-padded decimal digits; the rest of the text
\* ("YYYY-MM-DDTHH:MM:" and "+00:00") is the same for every value.
isoformat(dt) == <<dt \div 10, dt % 10>>

\* datetime.fromisoformat() of such a text.
fromisoformat(txt) == txt[1] * 10 + txt[2]

\* Python's (and SQLite's TEXT) comparison of two texts: lexicographic.
RECURSIVE StrLess(_, _)
StrLess(a, b) ==
    IF a = <<>> THEN b # <<>>
    ELSE IF b = <<>> THEN FALSE
    ELSE IF Head(a) # Head(b) THEN Head(a) < Head(b)
    ELSE StrLess(Tail(a), Tail(b))

\* ------------------------------------------------------------------ stores
\* storage.py:50-80 as an upsert: the new rows replace the stored rows of the
\* same subject and item.
insert_snapshot_batchUpsert(tbl, steamid, games, captured_at) ==
    LET captured_at_str == isoformat(captured_at)
        rows == [i \in 1..Len(games) |->
                    [captured_at_utc  |-> captured_at_str,
                     steamid          |-> steamid,
                     appid            |-> games[i].appid,
                     game_name        |-> games[i].name,
                     playtime_forever |-> games[i].playtime_forever]]
        Kept(r) == ~\E i \in 1..Len(rows) :
                       rows[i].steamid = r.steamid /\ rows[i].appid = r.appid
    IN SelectSeq(tbl, Kept) \o rows

\* storage.PlaytimeStorage.insert_snapshot_batch: captured_at is stored as
\* its ISO text; nothing is written for an empty game list.
insert_snapshot_batch(tbl, steamid, games, captured_at) ==
    LET captured_at_str == isoformat(captured_at)
        rows == [i \in 1..Len(games) |->
                    [captured_at_utc  |-> captured_at_str,
                     steamid          |-> steamid,
                     appid            |-> games[i].appid,
                     game_name        |-> games[i].name,
                     playtime_forever |-> games[i].playtime_forever]]
    IN IF rows = <<>> THEN tbl ELSE tbl \o rows

\* pg_storage.PgPlaytimeStorage.insert_snapshot_batch: captured_at is stored
\* as a TIMESTAMPTZ.
pg_insert_snapshot_batch(tbl, steamid, games, captured_at) ==
    LET rows == [i \in 1..Len(games) |->
                    [captured_at_utc  |-> captured_at,
                     steamid          |-> steamid,
                     appid            |-> games[i].appid,
                     game_name        |-> games[i].name,
                     playtime_forever |-> games[i].playtime_forever]]
    IN IF rows = <<>> THEN tbl ELSE tbl \o rows

\* The rows a SELECT ... WHERE steamid = ? sees, in id order.
RowsOf(tbl, steamid) ==
    LET Mine(r) == r.steamid = steamid IN SelectSeq(tbl, Mine)

\* The orders in which a SELECT ... ORDER BY may return rows, before being
\* the set of pairs <<i, j>> of positions whose row i sorts strictly before
\* row j: every arrangement in which no row precedes one that sorts strictly
\* before it (the order of rows with equal sort keys is unspecified by SQL).
Orderings(rows, before) ==
    LET n == Len(rows)
    IN {[i \in 1..n |-> rows[p[i]]] :
          p \in {q \in Permutations(1..n) :
                    \A i, j \in 1..n : i < j => <<q[j], q[i]>> \notin before}}

\* Mutant: ORDER BY captured_at_utc DESC.
fetch_snapshots_orderedDescending(tbl, steamid) ==
    LET rows == RowsOf(tbl, steamid)
        ByTimeDesc == {ij \in (1..Len(rows)) \X (1..Len(rows)) :
                      StrLess(rows[ij[2]].captured_at_utc, rows[ij[1]].captured_at_utc)}
        Parse(o) == [i \in 1..Len(o) |->
                        [o[i] EXCEPT !.captured_at_utc = fromisoformat(@)]]
    IN {Parse(o) : o \in Orderings(rows, ByTimeDesc)}

\* storage.PlaytimeStorage.fetch_snapshots_ordered(steamid), appid None:
\* ORDER BY captured_at_utc ASC on the TEXT column, then each text parsed
\* back into a datetime.
fetch_snapshots_ordered(tbl, steamid) ==
    LET rows == RowsOf(tbl, steamid)
        ByTime == {ij \in (1..Len(rows)) \X (1..Len(rows)) :
                      StrLess(rows[ij[1]].captured_at_utc, rows[ij[2]].captured_at_utc)}
        Parse(o) == [i \in 1..Len(o) |->
                        [o[i] EXCEPT !.captured_at_utc = fromisoformat(@)]]
    IN {Parse(o) : o \in Orderings(rows, ByTime)}

\* pg_storage.PgPlaytimeStorage.fetch_snapshots_ordered(steamid):
\* ORDER BY appid, captured_at_utc.
pg_fetch_snapshots_ordered(tbl, steamid) ==
    LET rows == RowsOf(tbl, steamid)
        ByAppTime == {ij \in (1..Len(rows)) \X (1..Len(rows)) :
            \/ rows[ij[1]].appid < rows[ij[2]].appid
            \/ /\ rows[ij[1]].appid = rows[ij[2]].appid
               /\ rows[ij[1]].captured_at_utc < rows[ij[2]].captured_at_utc}
    IN Orderings(rows, ByAppTime)

\* ------------------------------------------------------- session inference
\* Python truthiness of an Optional[str], and `a or b`.
Falsy(v) == v = None \/ v = ""
Or(a, b) == IF Falsy(a) THEN b ELSE a

\* f"appid {appid}"
AppidPlaceholder(appid) == "appid " \o ToString(appid)

\* The keys of by_app in insertion order: appids by first appearance.
RECURSIVE AppOrder(_)
AppOrder(snaps) ==
    IF snaps = <<>> THEN <<>>
    ELSE LET a == Head(snaps).appid
             Other(s) == s.appid # a
         IN <<a>> \o AppOrder(SelectSeq(Tail(snaps), Other))

\* Mutant: the list is not partitioned by appid.
AppSnapsUnpartitioned(snaps, appid) == snaps

\* by_app[appid]: the snapshots of one appid, in the order of the list.
AppSnaps(snaps, appid) ==
    LET Same(s) == s.appid = appid IN SelectSeq(snaps, Same)

\* Mutant: the previous snapshot's name is never used.
GameNameCurrentOnly(prev, current, appid) ==
    IF Falsy(current.game_name) THEN AppidPlaceholder(appid) ELSE current.game_name

\* analyzer.py:37-39, the session's game name.
GameName(prev, current, appid) ==
    LET game_name == Or(Or(current.game_name, prev.game_name), "")
    IN IF Falsy(game_name) THEN AppidPlaceholder(appid) ELSE game_name

\* Mutant: a flat pair emits a session too.
IncreasedOrFlat(prev, current) == current.playtime_forever >= prev.playtime_forever

\* analyzer.py:35, the test that emits a session for a pair.
Increased(prev, current) == current.playtime_forever > prev.playtime_forever

\* Mutant: prev is never advanced past the first snapshot.
NextPrevStuck(prev, current) == prev

\* Mutant: prev is advanced only when the pair emitted a session.
NextPrevOnSession(prev, current) ==
    IF current.playtime_forever > prev.playtime_forever THEN current ELSE prev

\* analyzer.py:50, the snapshot the next pair is measured from.
NextPrev(prev, current) == current

\* analyzer.py:34-50, the loop over app_snaps[1:] from position i on.
RECURSIVE Walk(_, _, _, _, _)
Walk(steamid, appid, app_snaps, i, prev) ==
    IF i > Len(app_snaps) THEN <<>>
    ELSE LET current == app_snaps[i]
             emitted ==
                 IF Increased(prev, current)
                 THEN <<[steamid          |-> steamid,
                         appid            |-> appid,
                         game_name        |-> GameName(prev, current, appid),
                         window_start_utc |-> prev.captured_at_utc,
                         window_end_utc   |-> current.captured_at_utc,
                         minutes_delta    |->
                             current.playtime_forever - prev.playtime_forever]>>
                 ELSE <<>>
         IN emitted \o Walk(steamid, appid, app_snaps, i + 1, NextPrev(prev, current))

\* Mutant: the first snapshot is measured against a playtime of 0.
AppSessionsFromZero(steamid, appid, app_snaps) ==
    Walk(steamid, appid, app_snaps, 1, [app_snaps[1] EXCEPT !.playtime_forever = 0])

\* analyzer.py:31-50, the sessions of one app: none below two snapshots.
AppSessions(steamid, appid, app_snaps) ==
    IF Len(app_snaps) < 2 THEN <<>>
    ELSE Walk(steamid, appid, app_snaps, 2, app_snaps[1])

\* analyzer.py:30-50, the sessions of the apps order[k..], concatenated.
RECURSIVE InferApps(_, _, _, _)
InferApps(steamid, snaps, order, k) ==
    IF k > Len(order) THEN <<>>
    ELSE AppSessions(steamid, order[k], AppSnaps(snaps, order[k]))
            \o InferApps(steamid, snaps, order, k + 1)

\* Mutant: the apps are walked from the last one to appear to the first.
infer_sessionsReversed(steamid, snaps) ==
    LET order == AppOrder(snaps)
        n == Len(order)
    IN InferApps(steamid, snaps, [i \in 1..n |-> order[n + 1 - i]], 1)

\* analyzer.infer_sessions_for_steamid, after the fetch.
infer_sessions(steamid, snaps) == InferApps(steamid, snaps, AppOrder(snaps), 1)

\* ------------------------------------------ session inference, served API
\* Mutant: the previous snapshot's name is never used.
ApiGameNameCurrentOnly(prev, current, appid) ==
    Or(current.game_name, AppidPlaceholder(appid))

\* frontend_api.py:37, the session's game name.
ApiGameName(prev, current, appid) ==
    Or(Or(current.game_name, prev.game_name), AppidPlaceholder(appid))

\* frontend_api.py:35, the test that emits a session for a pair.
ApiIncreased(prev, current) == current.playtime_forever > prev.playtime_forever

\* Mutant: every pair is measured from the first snapshot of the item.
ApiNextPrevStuck(prev, current) == prev

\* frontend_api.py:48, the snapshot the next pair is measured from.
ApiNextPrev(prev, current) == current

\* frontend_api.py:34-48, the loop over app_snaps[1:] from position i on.
RECURSIVE ApiWalk(_, _, _, _)
ApiWalk(appid, app_snaps, i, prev) ==
    IF i > Len(app_snaps) THEN <<>>
    ELSE LET current == app_snaps[i]
             emitted ==
                 IF ApiIncreased(prev, current)
                 THEN <<[steamid          |-> current.steamid,
                         appid            |-> appid,
                         game_name        |-> ApiGameName(prev, current, appid),
                         window_start_utc |-> isoformat(prev.captured_at_utc),
                         window_end_utc   |-> isoformat(current.captured_at_utc),
                         minutes_delta    |->
                             current.playtime_forever - prev.playtime_forever]>>
                 ELSE <<>>
         IN emitted \o ApiWalk(appid, app_snaps, i + 1, ApiNextPrev(prev, current))

\* frontend_api.py:31-48, the sessions of one app: none below two snapshots.
ApiAppSessions(appid, app_snaps) ==
    IF Len(app_snaps) < 2 THEN <<>>
    ELSE ApiWalk(appid, app_snaps, 2, app_snaps[1])

\* frontend_api.py:30-48, the sessions of the apps order[k..], concatenated.
RECURSIVE ApiInferApps(_, _, _)
ApiInferApps(snaps, order, k) ==
    IF k > Len(order) THEN <<>>
    ELSE ApiAppSessions(order[k], AppSnaps(snaps, order[k]))
            \o ApiInferApps(snaps, order, k + 1)

\* The sort key (steamid, appid, window_start_utc) of frontend_api.py:49,
\* compared as Python compares tuples.
SessionKeyLess(s1, s2) ==
    IF s1.steamid # s2.steamid THEN StrLess(s1.steamid, s2.steamid)
    ELSE IF s1.appid # s2.appid THEN s1.appid < s2.appid
    ELSE StrLess(s1.window_start_utc, s2.window_start_utc)

\* list.sort(key=...): a stable sort. x is placed behind every element whose
\* key is not greater than its own.
RECURSIVE InsertByKey(_, _)
InsertByKey(sorted, x) ==
    IF sorted = <<>> THEN <<x>>
    ELSE IF SessionKeyLess(x, Head(sorted)) THEN <<x>> \o sorted
    ELSE <<Head(sorted)>> \o InsertByKey(Tail(sorted), x)

RECURSIVE SortSessions(_, _)
SortSessions(sorted, rest) ==
    IF rest = <<>> THEN sorted
    ELSE SortSessions(InsertByKey(sorted, Head(rest)), Tail(rest))

\* frontend_api._infer_sessions_from_snapshots
_infer_sessions_from_snapshots(snaps) ==
    IF snaps = <<>> THEN <<>>
    ELSE SortSessions(<<>>, ApiInferApps(snaps, AppOrder(snaps), 1))

\* ------------------------------------------------------- store programs
NoCall == [op |-> "none"]

\* datetime.now(timezone.utc) of a call: later than every stored capture time.
Now(tbl) == Len(tbl) + 1

StoreInit ==
    /\ table = <<>>
    /\ called = NoCall
    /\ snapshots = <<>>
    /\ sessions = <<>>

\* collector.py:61-62 / backend_run_once_pg.py:34-35: one subject's fetched
\* games are appended to the store.
InsertBatch ==
    /\ program \in {"sqlite", "pg"}
    /\ all_pc = "idle"
    /\ \E steamid \in SteamIds : \E games \in GameLists(steamid) :
          /\ Len(table) + Len(games) <= MaxRows
          /\ table' = IF program = "sqlite"
                      THEN insert_snapshot_batch(table, steamid, games, Now(table))
                      ELSE pg_insert_snapshot_batch(table, steamid, games, Now(table))
          /\ called' = [op |-> "insert", steamid |-> steamid, rows |-> Len(games)]
    /\ snapshots' = <<>>
    /\ sessions' = <<>>
    /\ UNCHANGED <<program, allVars, poolVars, runVars, gateVars, moreVars>>

\* analyzer.infer_sessions_for_steamid(storage, steamid)
InferSessions ==
    /\ program = "sqlite"
    /\ \E steamid \in SteamIds : \E snaps \in fetch_snapshots_ordered(table, steamid) :
          /\ called' = [op |-> "infer", steamid |-> steamid, raised |-> FALSE]
          /\ snapshots' = snaps
          /\ sessions' = infer_sessions(steamid, snaps)
    /\ UNCHANGED <<program, table, allVars, poolVars, runVars, gateVars, moreVars>>

\* The same call when the store read raises (sqlite3.Error): nothing is
\* returned.
InferSessionsRaises ==
    /\ program = "sqlite"
    /\ \E steamid \in SteamIds :
          called' = [op |-> "infer", steamid |-> steamid, raised |-> TRUE]
    /\ snapshots' = <<>>
    /\ sessions' = <<>>
    /\ UNCHANGED <<program, table, allVars, poolVars, runVars, gateVars, moreVars>>

\* frontend_api.get_sessions(steamid), up to the truncation to limit.
ApiSessions ==
    /\ program = "pg"
    /\ \E steamid \in SteamIds : \E snaps \in pg_fetch_snapshots_ordered(table, steamid) :
          /\ called' = [op |-> "api", steamid |-> steamid, raised |-> FALSE]
          /\ snapshots' = snaps
          /\ sessions' = _infer_sessions_from_snapshots(snaps)
    /\ UNCHANGED <<program, table, allVars, poolVars, runVars, gateVars, moreVars>>

\* The same request when the store read raises (psycopg.Error): the store
\* is closed (frontend_api.py:69-70) and the error leaves get_sessions.
ApiSessionsRaises ==
    /\ program = "pg"
    /\ \E steamid \in SteamIds :
          called' = [op |-> "api", steamid |-> steamid, raised |-> TRUE]
    /\ snapshots' = <<>>
    /\ sessions' = <<>>
    /\ UNCHANGED <<program, table, allVars, poolVars, runVars, gateVars, moreVars>>

\* ------------------------------------------------ served API with a limit
\* The value None of the Optional[int] limit; an int n is <<n>>.
NoLimit == <<>>
\* The limits a request may carry (frontend_api.py:56-58).
Limits == {NoLimit, <<-1>>, <<0>>, <<1>>, <<2>>, <<3>>}

\* frontend_api.py:71-73: sessions[-limit:] when limit is a positive int
\* below the length of the list, else the list.
LimitSessions(ss, limit) ==
    IF limit # NoLimit /\ limit[1] > 0 /\ Len(ss) > limit[1]
    THEN SubSeq(ss, Len(ss) - limit[1] + 1, Len(ss))
    ELSE ss

\* frontend_api.get_sessions(steamid, limit)
GetSessions ==
    /\ program = "pg"
    /\ \E steamid \in SteamIds :
          \E snaps \in pg_fetch_snapshots_ordered(table, steamid) :
             LET inferred == _infer_sessions_from_snapshots(snaps)
             IN \E limit \in Limits :
                   /\ called' = [op |-> "get_sessions", steamid |-> steamid,
                                 raised |-> FALSE, limit |-> limit]
                   /\ snapshots' = snaps
                   /\ sessions' = inferred
                   /\ response' = LimitSessions(inferred, limit)
    /\ UNCHANGED <<program, table, allVars, poolVars, runVars, gateVars, lockVars, resVars, dashVars>>

\* The same request when the store cannot be opened (frontend_api.py:60-63)
\* or its read raises (65-69): no list is returned.
GetSessionsRaises ==
    /\ program = "pg"
    /\ \E steamid \in SteamIds, limit \in Limits :
          called' = [op |-> "get_sessions", steamid |-> steamid,
                     raised |-> TRUE, limit |-> limit]
    /\ snapshots' = <<>>
    /\ sessions' = <<>>
    /\ response' = <<>>
    /\ UNCHANGED <<program, table, allVars, poolVars, runVars, gateVars, lockVars, resVars, dashVars>>

ServeNext == GetSessions \/ GetSessionsRaises

StoreNext ==
    \/ InsertBatch
    \/ InferSessions
    \/ InferSessionsRaises
    \/ ApiSessions
    \/ ApiSessionsRaises

\* ------------------------------------------------------- batch inference
AllInit ==
    /\ all_pc = "idle"
    /\ all_steamids = <<>>
    /\ all_i = 1
    /\ all_sessions = <<>>
    /\ all_failed = {}

\* The steamids export_sessions.main passes: the configured players that
\* have a steamid (export_sessions.py:15), each once.
SteamIdLists ==
    {<<>>} \cup {<<x>> : x \in SteamIds}
           \cup {<<p[1], p[2]>> : p \in {q \in SteamIds \X SteamIds : q[1] # q[2]}}

\* analyzer.py:58, the call of infer_sessions_for_all(storage, steamids).
AllStart ==
    /\ program = "sqlite"
    /\ all_pc = "idle"
    /\ \E steamids \in SteamIdLists : all_steamids' = steamids
    /\ all_pc' = "running"
    /\ all_i' = 1
    /\ all_sessions' = <<>>
    /\ all_failed' = {}
    /\ UNCHANGED <<storeVars, poolVars, runVars, gateVars, moreVars>>

\* analyzer.py:59-61, one iteration: the subject's sessions are inferred
\* and appended.
AllStep ==
    /\ all_pc = "running"
    /\ all_i <= Len(all_steamids)
    /\ \E snaps \in fetch_snapshots_ordered(table, all_steamids[all_i]) :
          all_sessions' = all_sessions \o infer_sessions(all_steamids[all_i], snaps)
    /\ all_i' = all_i + 1
    /\ UNCHANGED <<storeVars, poolVars, runVars, gateVars, moreVars, all_pc, all_steamids, all_failed>>

\* analyzer.py:60, the iteration when the subject's store read raises: no
\* handler stands between the call and the caller of infer_sessions_for_all.
AllStepRaises ==
    /\ all_pc = "running"
    /\ all_i <= Len(all_steamids)
    /\ all_pc' = "raised"
    /\ all_failed' = all_failed \cup {all_steamids[all_i]}
    /\ UNCHANGED <<storeVars, poolVars, runVars, gateVars, moreVars, all_steamids, all_i, all_sessions>>

\* analyzer.py:62, the return of all_sessions.
AllReturn ==
    /\ all_pc = "running"
    /\ all_i > Len(all_steamids)
    /\ all_pc' = "returned"
    /\ UNCHANGED <<storeVars, poolVars, runVars, gateVars, moreVars, all_steamids, all_i, all_sessions, all_failed>>

AllNext == AllStart \/ AllStep \/ AllStepRaises \/ AllReturn

\* web_export.py:12-26: the list written to sessions.json, each session with
\* its window bounds as ISO texts, in the order of the list passed.
export_sessions_to_json(ss) ==
    [i \in 1..Len(ss) |->
        [ss[i] EXCEPT !.window_start_utc = isoformat(@),
                      !.window_end_utc = isoformat(@)]]

\* ------------------------------------- worker-pool collector: operations
\* The value None of an Optional[str] steamid (an empty text is falsy too).
NoneId == <<>>
Truthy(v) == v # NoneId

\* config.toml, steam.players: two players with a steamid, one with a
\* vanity URL only.
Players == <<[steamid |-> <<7, 1>>], [steamid |-> <<7, 2>>], [steamid |-> NoneId]>>
Units == 1..Len(Players)

\* collector.py:390, the players a unit of work is submitted for.
Submitted == {u \in Units : Truthy(Players[u].steamid)}

\* collector.py:378, the default of steam.max_workers.
MaxWorkers == 4

\* A scraped game without an 'appid' key (steam_scraper.py:236-240, 285-306).
NoAppid == 0

\* playtime_total in hundredths of an hour.
ScrapedGame(appid, playtime_total) ==
    [appid |-> appid, playtime_total |-> playtime_total]

\* What scrape_recent_games may return (steam_scraper.py:147-223): no game
\* (private profile, network failure), or the recent games of the profile.
ScrapeResults ==
    {<<>>,
     <<ScrapedGame(1, 10)>>,
     <<ScrapedGame(1, 11)>>,
     <<ScrapedGame(1, 20)>>,
     <<ScrapedGame(1, 10), ScrapedGame(2, 10)>>,
     <<ScrapedGame(NoAppid, 10)>>}

\* collector.py:70-78, connect_db when the connection can be made.
connect_db(c) == IF c \in {"none", "closed"} THEN "open" ELSE c

\* collector.py:80-84 with the connection left as it is.
close_dbNever(c) == c

\* collector.py:80-84
close_db(c) == IF c \in {"open", "aborted"} THEN "closed" ELSE c

\* collector.py:86-118: the games_data of the newest row, or None when the
\* player has no row or the query raises. None is the empty sequence, a row
\* is <<games_data>>.
get_last_snapshot(stored, read_ok) ==
    IF read_ok /\ stored # <<>> THEN <<stored[Len(stored)]>> ELSE <<>>

Abs(x) == IF x < 0 THEN -x ELSE x

\* collector.py:144: building old_games_dict raises KeyError when a stored
\* game has no 'appid' key.
is_data_changed_raises(old_data, new_data) ==
    /\ old_data # <<>>
    /\ Len(old_data[1].recent_games) = Len(new_data)
    /\ \E i \in 1..Len(old_data[1].recent_games) :
          old_data[1].recent_games[i].appid = NoAppid

\* collector.py:120-163 reporting a change whatever the data.
is_data_changedAlways(old_data, new_data) == TRUE

\* collector.py:120-163, when it returns. 0.01 hour is 1 hundredth.
is_data_changed(old_data, new_data) ==
    IF old_data = <<>> THEN TRUE
    ELSE LET old_games == old_data[1].recent_games
             \* old_games_dict.get(appid): the last old game of that appid
             Old(appid) ==
                 LET at == {i \in 1..Len(old_games) : old_games[i].appid = appid}
                 IN IF at = {} THEN <<>>
                    ELSE <<old_games[CHOOSE i \in at : \A j \in at : j <= i]>>
         IN IF Len(old_games) # Len(new_data) THEN TRUE
            ELSE \E i \in 1..Len(new_data) :
                    /\ new_data[i].appid # NoAppid
                    /\ \/ Old(new_data[i].appid) = <<>>
                       \/ Abs(Old(new_data[i].appid)[1].playtime_total
                              - new_data[i].playtime_total) > 1

\* collector.py:225 with no test at all.
NoDataNever(new_data) == FALSE

\* collector.py:225, the test for "no data this cycle".
NoData(new_data) == new_data = <<>>

\* collector.py:165-204: the rows of the player after the call, the value
\* returned, and whether the call raised. fault is "none", "execute"
\* (cursor.execute raised), "commit" (conn.commit raised) or "rollback" (one
\* of the two raised and conn.rollback, called in the handler at line 203,
\* raised in turn). A transaction that was not committed leaves no row.
save_snapshot(stored, new_data, fault) ==
    LET snapshot_data == [game_count |-> Len(new_data), recent_games |-> new_data]
        inserted == IF fault \in {"execute", "rollback"} THEN <<>> ELSE <<snapshot_data>>
        committed == fault = "none"
    IN [rows |-> IF committed THEN stored \o inserted ELSE stored,
        ok |-> committed,
        raised |-> fault = "rollback"]

\* collector.py:398-400: the success counter after a future's result.
CountSuccess(res, n) == IF Truthy(res) THEN n + 1 ELSE n

\* The failure counter left alone whatever the result.
CountFailNever(res, n) == n

\* collector.py:401-402: the failure counter after a future's result.
CountFail(res, n) == IF Truthy(res) THEN n ELSE n + 1

\* --------------------------------------- worker-pool collector: actions
PoolInit ==
    /\ game_snapshots = [u \in Units |-> <<>>]
    /\ main_pc = "start"
    /\ wpc = [u \in Units |-> "none"]
    /\ conn = [u \in Units |-> "none"]
    /\ games_data = [u \in Units |-> <<>>]
    /\ outcome = [u \in Units |-> "none"]
    /\ result = [u \in Units |-> NoneId]
    /\ counted = {}
    /\ success_count = 0
    /\ fail_count = 0

\* The number of runs of main the model follows.
MaxRuns == 2

\* The rows written so far bound the runs: a run adds at most one row per
\* player.
RunsLeft == \A u \in Units : Len(game_snapshots[u]) < MaxRuns

\* collector.py:382-394: a unit of work is submitted for every player with a
\* steamid, each with a collector of its own.
MainSubmit ==
    /\ program = "pool"
    /\ main_pc = "start"
    /\ RunsLeft
    /\ main_pc' = "pool"
    /\ wpc' = [u \in Units |-> IF u \in Submitted THEN "queued" ELSE "none"]
    /\ conn' = [u \in Units |-> "none"]
    /\ games_data' = [u \in Units |-> <<>>]
    /\ outcome' = [u \in Units |-> "none"]
    /\ result' = [u \in Units |-> NoneId]
    /\ counted' = {}
    /\ success_count' = 0
    /\ fail_count' = 0
    /\ UNCHANGED <<storeVars, allVars, runVars, gateVars, moreVars, game_snapshots>>

\* The unit ends: the finally clause closes the connection
\* (collector.py:277-278) and the future holds the returned value.
Ends(u, how, value) ==
    /\ wpc' = [wpc EXCEPT ![u] = "done"]
    /\ conn' = [conn EXCEPT ![u] = close_db(@)]
    /\ games_data' = [games_data EXCEPT ![u] = <<>>]
    /\ outcome' = [outcome EXCEPT ![u] = how]
    /\ result' = [result EXCEPT ![u] = value]

\* collector.py:217-218: a pool thread takes the unit and connects.
WConnect(u) ==
    /\ wpc[u] = "queued"
    /\ Cardinality({v \in Units : wpc[v] \in {"scrape", "compare", "save"}}) < MaxWorkers
    /\ wpc' = [wpc EXCEPT ![u] = "scrape"]
    /\ conn' = [conn EXCEPT ![u] = connect_db(@)]
    /\ UNCHANGED <<storeVars, allVars, runVars, gateVars, moreVars, game_snapshots, main_pc, games_data,
                   outcome, result, counted, success_count, fail_count>>

\* collector.py:76-78, 272-276: psycopg2.connect raises; the unit returns None.
WConnectRaises(u) ==
    /\ wpc[u] = "queued"
    /\ Cardinality({v \in Units : wpc[v] \in {"scrape", "compare", "save"}}) < MaxWorkers
    /\ Ends(u, "error", NoneId)
    /\ UNCHANGED <<storeVars, allVars, runVars, gateVars, moreVars, game_snapshots, main_pc, counted,
                   success_count, fail_count>>

\* collector.py:223-243: the profile is scraped; without games the unit
\* returns the steamid at once.
WScrape(u) ==
    /\ wpc[u] = "scrape"
    /\ \E new_data \in ScrapeResults :
          IF NoData(new_data)
          THEN Ends(u, "nodata", Players[u].steamid)
          ELSE /\ wpc' = [wpc EXCEPT ![u] = "compare"]
               /\ games_data' = [games_data EXCEPT ![u] = new_data]
               /\ UNCHANGED <<conn, outcome, result>>
    /\ UNCHANGED <<storeVars, allVars, runVars, gateVars, moreVars, game_snapshots, main_pc, counted,
                   success_count, fail_count>>

\* steam_scraper.py:171, 331: raise_for_status raises an HTTPError, which the
\* retry loops do not catch; the unit returns None (collector.py:272-276).
WScrapeRaises(u) ==
    /\ wpc[u] = "scrape"
    /\ Ends(u, "error", NoneId)
    /\ UNCHANGED <<storeVars, allVars, runVars, gateVars, moreVars, game_snapshots, main_pc, counted,
                   success_count, fail_count>>

\* collector.py:245-258: the newest row is read and compared with the
\* scraped games. A read that raised (get_last_snapshot then returns None,
\* lines 116-118, without a rollback) leaves the connection with a failed
\* transaction.
WCompare(u) ==
    /\ wpc[u] = "compare"
    /\ \E read_ok \in BOOLEAN :
          LET last_snapshot == get_last_snapshot(game_snapshots[u], read_ok)
          IN IF is_data_changed_raises(last_snapshot, games_data[u])
             THEN Ends(u, "error", NoneId)
             ELSE IF ~is_data_changed(last_snapshot, games_data[u])
             THEN Ends(u, "unchanged", Players[u].steamid)
             ELSE /\ wpc' = [wpc EXCEPT ![u] = "save"]
                  /\ conn' = [conn EXCEPT ![u] = IF read_ok THEN @ ELSE "aborted"]
                  /\ UNCHANGED <<games_data, outcome, result>>
    /\ UNCHANGED <<storeVars, allVars, runVars, gateVars, moreVars, game_snapshots, main_pc, counted,
                   success_count, fail_count>>

\* The ways a save_snapshot call on connection c can go.
SaveFaults(c) ==
    IF c = "aborted" THEN {"execute", "rollback"}
    ELSE {"none", "execute", "commit", "rollback"}

\* collector.py:260-276: the snapshot is saved, and the steamid is returned
\* whether or not save_snapshot succeeded; an exception leaving save_snapshot
\* is caught at line 272 and None is returned. On a connection whose
\* transaction has failed, cursor.execute raises.
WSave(u) ==
    /\ wpc[u] = "save"
    /\ \E fault \in SaveFaults(conn[u]) :
          LET saved == save_snapshot(game_snapshots[u], games_data[u], fault)
          IN /\ game_snapshots' = [game_snapshots EXCEPT ![u] = saved.rows]
             /\ IF saved.raised THEN Ends(u, "save_raised", NoneId)
                ELSE IF saved.ok THEN Ends(u, "saved", Players[u].steamid)
                ELSE Ends(u, "save_failed", Players[u].steamid)
    /\ UNCHANGED <<storeVars, allVars, runVars, gateVars, moreVars, main_pc, counted, success_count, fail_count>>

\* collector.py:396-404: as_completed yields a finished future and its
\* result is counted.
MainCount(u) ==
    /\ main_pc = "pool"
    /\ wpc[u] = "done"
    /\ u \notin counted
    /\ counted' = counted \cup {u}
    /\ success_count' = CountSuccess(result[u], success_count)
    /\ fail_count' = CountFail(result[u], fail_count)
    /\ UNCHANGED <<storeVars, allVars, runVars, gateVars, moreVars, game_snapshots, main_pc, wpc, conn,
                   games_data, outcome, result>>

\* collector.py:406-408: every future was yielded; the summary is logged.
MainSummary ==
    /\ main_pc = "pool"
    /\ counted = Submitted
    /\ main_pc' = "done"
    /\ UNCHANGED <<storeVars, allVars, runVars, gateVars, moreVars, game_snapshots, wpc, conn, games_data,
                   outcome, result, counted, success_count, fail_count>>

\* The next scheduled run of main starts.
MainAgain ==
    /\ main_pc = "done"
    /\ RunsLeft
    /\ main_pc' = "start"
    /\ UNCHANGED <<storeVars, allVars, runVars, gateVars, moreVars, game_snapshots, wpc, conn, games_data,
                   outcome, result, counted, success_count, fail_count>>

PoolNext ==
    \/ MainSubmit
    \/ \E u \in Units :
          \/ WConnect(u)
          \/ WConnectRaises(u)
          \/ WScrape(u)
          \/ WScrapeRaises(u)
          \/ WCompare(u)
          \/ WSave(u)
          \/ MainCount(u)
    \/ MainSummary
    \/ MainAgain

\* ------------------------------------ polling and run-once collectors
\* Polling cycles the model follows.
MaxCycles == 2

\* config_loader.PlayerConfig: steamid and vanity_url, both optional.
Player(steamid, vanity_url) == [steamid |-> steamid, vanity_url |-> vanity_url]

\* cfg.steam.players of the configurations followed: load_config keeps the
\* players that have a steamid or a vanity URL, and at least one.
RunConfigs ==
    {<<Player(<<7, 1>>, None), Player(<<7, 2>>, None)>>,
     <<Player(<<7, 1>>, None), Player(NoneId, "gabe")>>,
     <<Player(NoneId, "gabe"), Player(<<7, 1>>, None)>>,
     <<Player(<<7, 2>>, None), Player(NoneId, "gabe")>>,
     <<Player(NoneId, "gabe")>>}

\* result[steamid] = steamid on a dict kept as its list of values: a key
\* already present keeps its place.
DictPut(values, steamid) ==
    IF \E i \in 1..Len(values) : values[i] = steamid THEN values
    ELSE Append(values, steamid)

\* collector.py:24-32 / backend_run_once_pg.py:13-21 with an unresolved
\* vanity URL skipped instead of raised.
RECURSIVE EnsureSkipsUnresolved(_, _, _, _)
EnsureSkipsUnresolved(players, answer, k, values) ==
    IF k > Len(players) THEN [raised |-> values = <<>>, values |-> values]
    ELSE IF Truthy(players[k].steamid)
    THEN EnsureSkipsUnresolved(players, answer, k + 1, DictPut(values, players[k].steamid))
    ELSE IF players[k].vanity_url # None /\ Truthy(answer)
    THEN EnsureSkipsUnresolved(players, answer, k + 1, DictPut(values, answer))
    ELSE EnsureSkipsUnresolved(players, answer, k + 1, values)

\* collector.py:22-35 / backend_run_once_pg.py:11-24, _ensure_steamids from
\* player k on: whether it raises, and the values of the dict it returns.
\* answer is what resolve_vanity_url returns (None for an unknown name).
RECURSIVE Ensure(_, _, _, _)
Ensure(players, answer, k, values) ==
    IF k > Len(players) THEN [raised |-> values = <<>>, values |-> values]
    ELSE IF Truthy(players[k].steamid)
    THEN Ensure(players, answer, k + 1, DictPut(values, players[k].steamid))
    ELSE IF players[k].vanity_url # None
    THEN IF ~Truthy(answer) THEN [raised |-> TRUE, values |-> values]
         ELSE Ensure(players, answer, k + 1, DictPut(values, answer))
    ELSE Ensure(players, answer, k + 1, values)

\* collector.py:60-64 with the stop flag also tested between two subjects.
AfterFetchStops(polling, stop, i, n) ==
    IF stop THEN "check" ELSE IF i < n THEN "fetch" ELSE IF polling THEN "sleep" ELSE "done"

\* collector.py:61-64 / backend_run_once_pg.py:33-35: where the run is once
\* subject i of n has been fetched and stored.
AfterFetch(polling, stop, i, n) ==
    IF i < n THEN "fetch" ELSE IF polling THEN "sleep" ELSE "done"

\* collector.py:56-66 / backend_run_once_pg.py:31-38: the resources as the
\* run leaves them, by an exception (raised) or not. The client is closed by
\* the finally clause of _steam_client (collector.py:18-19) or of main
\* (backend_run_once_pg.py:36-38); the store is closed by main's finally
\* clause, and in run_collector by the statement after the with block
\* (collector.py:66).
Released(polling, raised) ==
    /\ client_open' = FALSE
    /\ storage_open' = (polling /\ raised)

\* collector.py:46, 56 / backend_run_once_pg.py:29-30: the store and the
\* client have been opened.
ResInit ==
    /\ storage_open = TRUE
    /\ client_open = TRUE

\* The deployments that do not run a collector of this kind hold neither.
ResIdle ==
    /\ storage_open = FALSE
    /\ client_open = FALSE

NotSeen == [pc |-> "none", i |-> 0]

\* The run before its first step; also the state of these variables in the
\* deployments that do not run a collector of this kind.
RunIdle ==
    /\ run_pc = "setup"
    /\ run_steamids = <<>>
    /\ run_i = 1
    /\ stop_flag = FALSE
    /\ stop_seen = NotSeen
    /\ run_cycles = 0
    /\ fetch_calls = 0
    /\ run_error = "none"

RunInit ==
    /\ run_players \in RunConfigs
    /\ resolve_answer \in {<<7, 2>>, NoneId}
    /\ RunIdle

Polling == program = "poller"

\* collector.py:57 / backend_run_once_pg.py:32: _ensure_steamids returns.
RunSetup ==
    /\ program \in {"poller", "runonce"}
    /\ run_pc = "setup"
    /\ LET e == Ensure(run_players, resolve_answer, 1, <<>>)
       IN /\ run_steamids' = e.values
          /\ run_pc' = IF e.raised THEN "raised" ELSE IF Polling THEN "check" ELSE "fetch"
          /\ run_error' = IF e.raised THEN "setup" ELSE "none"
    /\ IF Ensure(run_players, resolve_answer, 1, <<>>).raised
       THEN Released(Polling, TRUE) ELSE UNCHANGED resVars
    /\ UNCHANGED <<storeVars, allVars, poolVars, gateVars, apiVars, lockVars, dashVars, run_players,
                   resolve_answer, run_i, stop_flag, stop_seen, run_cycles,
                   fetch_calls>>

\* steam_api.py:31-32: the request of resolve_vanity_url raises.
RunSetupRaises ==
    /\ program \in {"poller", "runonce"}
    /\ run_pc = "setup"
    /\ \E k \in 1..Len(run_players) :
          ~Truthy(run_players[k].steamid) /\ run_players[k].vanity_url # None
    /\ run_pc' = "raised"
    /\ run_error' = "setup"
    /\ Released(Polling, TRUE)
    /\ UNCHANGED <<storeVars, allVars, poolVars, gateVars, apiVars, lockVars, dashVars, run_players,
                   resolve_answer, run_steamids, run_i, stop_flag, stop_seen,
                   run_cycles, fetch_calls>>

\* collector.py:60: the while test.
RunCheck ==
    /\ Polling
    /\ run_pc = "check"
    /\ IF stop_flag
       THEN run_pc' = "stopped" /\ UNCHANGED <<run_i, run_cycles>>
       ELSE /\ run_cycles < MaxCycles
            /\ run_pc' = "fetch"
            /\ run_i' = 1
            /\ run_cycles' = run_cycles + 1
    /\ IF stop_flag THEN Released(Polling, FALSE) ELSE UNCHANGED resVars
    /\ UNCHANGED <<storeVars, allVars, poolVars, gateVars, apiVars, lockVars, dashVars, run_players,
                   resolve_answer, run_steamids, stop_flag, stop_seen,
                   fetch_calls, run_error>>

\* collector.py:62-63 / backend_run_once_pg.py:34-35: one subject is fetched
\* and its games are inserted.
RunFetch ==
    /\ run_pc = "fetch"
    /\ \E games \in GameLists(run_steamids[run_i]) :
          /\ Len(table) + Len(games) <= MaxRows
          /\ table' = IF Polling
                      THEN insert_snapshot_batch(table, run_steamids[run_i], games, Now(table))
                      ELSE pg_insert_snapshot_batch(table, run_steamids[run_i], games, Now(table))
          /\ called' = [op |-> "insert", steamid |-> run_steamids[run_i],
                        rows |-> Len(games)]
    /\ fetch_calls' = fetch_calls + 1
    /\ run_pc' = AfterFetch(Polling, stop_flag, run_i, Len(run_steamids))
    /\ run_i' = run_i + 1
    /\ IF AfterFetch(Polling, stop_flag, run_i, Len(run_steamids)) = "done"
       THEN Released(Polling, FALSE) ELSE UNCHANGED resVars
    /\ UNCHANGED <<program, snapshots, sessions, allVars, poolVars, gateVars, apiVars, lockVars, dashVars,
                   run_players, resolve_answer, run_steamids, stop_flag,
                   stop_seen, run_cycles, run_error>>

\* steam_api.py:49-50: the request of get_owned_games raises (httpx error or
\* raise_for_status); nothing in run_collector or main catches it.
RunFetchRaises ==
    /\ run_pc = "fetch"
    /\ fetch_calls' = fetch_calls + 1
    /\ run_pc' = "raised"
    /\ run_error' = "fetch"
    /\ Released(Polling, TRUE)
    /\ UNCHANGED <<storeVars, allVars, poolVars, gateVars, apiVars, lockVars, dashVars, run_players,
                   resolve_answer, run_steamids, run_i, stop_flag, stop_seen,
                   run_cycles>>

\* collector.py:64: time.sleep(interval) returns.
RunSleep ==
    /\ run_pc = "sleep"
    /\ run_pc' = "check"
    /\ UNCHANGED resVars
    /\ UNCHANGED <<storeVars, allVars, poolVars, gateVars, apiVars, lockVars, dashVars, run_players,
                   resolve_answer, run_steamids, run_i, stop_flag, stop_seen,
                   run_cycles, fetch_calls, run_error>>

\* collector.py:50-54: SIGINT or SIGTERM arrives and _handle_signal runs.
Signal ==
    /\ Polling
    /\ run_pc \notin {"stopped", "raised"}
    /\ ~stop_flag
    /\ stop_flag' = TRUE
    /\ stop_seen' = [pc |-> run_pc, i |-> run_i]
    /\ UNCHANGED resVars
    /\ UNCHANGED <<storeVars, allVars, poolVars, gateVars, apiVars, lockVars, dashVars, run_players,
                   resolve_answer, run_pc, run_steamids, run_i, run_cycles,
                   fetch_calls, run_error>>

RunNext ==
    \/ RunSetup
    \/ RunSetupRaises
    \/ RunCheck
    \/ RunFetch
    \/ RunFetchRaises
    \/ RunSleep
    \/ Signal

\* ------------------------------------------------ stores with a history
\* collector.py:62-63 / backend_run_once_pg.py:34-35 for one subject, from
\* each of the tables tbls of the SQLite (sqlite TRUE) or PostgreSQL store:
\* the tables after its games, a list of apps among `apps`, were inserted.
AfterSubject(tbls, sqlite, steamid, apps) ==
    {IF sqlite THEN insert_snapshot_batch(t, steamid, g, Now(t))
               ELSE pg_insert_snapshot_batch(t, steamid, g, Now(t)) :
        t \in tbls,
        g \in {l \in GameLists(steamid) : \A i \in 1..Len(l) : l[i].appid \in apps}}

\* collector.py:61-63 / backend_run_once_pg.py:33-35, the for loop of one
\* cycle (one run of the run-once collector) from subject k on.
RECURSIVE AfterCycle(_, _, _, _, _)
AfterCycle(tbls, sqlite, steamids, apps, k) ==
    IF k > Len(steamids) THEN tbls
    ELSE AfterCycle(AfterSubject(tbls, sqlite, steamids[k], apps),
                    sqlite, steamids, apps, k + 1)

\* collector.py:60-64, n polling cycles (n runs of the run-once collector).
RECURSIVE AfterCycles(_, _, _, _, _)
AfterCycles(tbls, sqlite, steamids, apps, n) ==
    IF n = 0 THEN tbls
    ELSE AfterCycles(AfterCycle(tbls, sqlite, steamids, apps, 1),
                     sqlite, steamids, apps, n - 1)

\* The names get_owned_games may report for a game (steam_api.py:64): none
\* or an empty one, and for app 1 its name before and after it was renamed.
ReportedNames(appid) ==
    IF appid = 1 THEN {None, "", "Portal", "Portal 2"} ELSE {None, ""}

\* The entries get_owned_games may return for an app.
NamedGames(appid) ==
    {[appid |-> appid, name |-> n, playtime_forever |-> p] :
        n \in ReportedNames(appid), p \in Playtimes}

\* What get_owned_games may return: no entry, or the entries of the owned
\* apps, one per appid in ascending appid order, under any reported name.
NamedGameLists ==
    {<<>>} \cup {<<g>> : g \in NamedGames(1) \cup NamedGames(2)}
           \cup {<<g, h>> : g \in NamedGames(1), h \in NamedGames(2)}

\* collector.py:62-63 / backend_run_once_pg.py:34-35 for one subject whose
\* fetch returned one of `lists`, from each of the tables tbls.
AfterInsertOf(tbls, sqlite, steamid, lists) ==
    {IF sqlite THEN insert_snapshot_batch(t, steamid, g, Now(t))
               ELSE pg_insert_snapshot_batch(t, steamid, g, Now(t)) :
        t \in tbls, g \in lists}

\* ---------------------------------------- worker-pool collector: lock file
\* The collector processes that a scheduler may start against one lock path.
Procs == {1, 2}

NoFile == <<>>

\* collector.py:353-354: the file as open(lock_path, 'w') and the write
\* leave it, whatever it held.
LockWrittenBy(p) == <<[owner |-> p, age |-> "fresh"]>>

\* collector.py:370-374, 415-421: os.remove under os.path.exists; removed is
\* FALSE when os.remove raises (the handler only logs a warning).
RemoveIfExists(file, removed) == IF file # NoFile /\ removed THEN NoFile ELSE file

\* The phases between creating the lock file and removing it.
Collecting == {"verify", "pool"}
\* The ways main ends.
Ended == {"refused", "create_failed", "cookie_invalid", "verify_raised",
          "completed", "pool_error"}

LockInit ==
    /\ lock_file = NoFile
    /\ lpc = [p \in Procs |-> "start"]

\* collector.py:335: os.path.exists(lock_path).
LockExists(p) ==
    /\ program = "lock"
    /\ lpc[p] = "start"
    /\ lpc' = [lpc EXCEPT ![p] = IF lock_file = NoFile THEN "create" ELSE "inspect"]
    /\ UNCHANGED <<storeVars, allVars, poolVars, runVars, gateVars, apiVars, resVars, dashVars, lock_file>>

\* collector.py:336-349: the file is read and its age is tested. A stale file
\* is removed and main goes on; a fresh one makes main return; a file that
\* has gone in the meantime makes open raise, which is logged, and main goes
\* on.
LockInspect(p) ==
    /\ lpc[p] = "inspect"
    /\ IF lock_file = NoFile
       THEN lpc' = [lpc EXCEPT ![p] = "create"] /\ UNCHANGED lock_file
       ELSE IF lock_file[1].age = "stale"
       THEN lpc' = [lpc EXCEPT ![p] = "create"] /\ lock_file' = NoFile
       ELSE lpc' = [lpc EXCEPT ![p] = "refused"] /\ UNCHANGED lock_file
    /\ UNCHANGED <<storeVars, allVars, poolVars, runVars, gateVars, apiVars, resVars, dashVars>>

\* collector.py:352-358: the lock file is written, or main returns when the
\* write raises.
LockCreate(p) ==
    /\ lpc[p] = "create"
    /\ \E written \in BOOLEAN :
          IF written
          THEN lock_file' = LockWrittenBy(p) /\ lpc' = [lpc EXCEPT ![p] = "verify"]
          ELSE UNCHANGED lock_file /\ lpc' = [lpc EXCEPT ![p] = "create_failed"]
    /\ UNCHANGED <<storeVars, allVars, poolVars, runVars, gateVars, apiVars, resVars, dashVars>>

\* collector.py:362-375: the collector is constructed and the cookie is
\* verified. An invalid cookie removes the lock file and returns; an
\* exception of the constructor or of verify_cookies leaves main, no
\* handler being around these lines.
LockVerify(p) ==
    /\ lpc[p] = "verify"
    /\ \E how \in {"valid", "invalid", "raises"}, removed \in BOOLEAN :
          IF how = "valid"
          THEN lpc' = [lpc EXCEPT ![p] = "pool"] /\ UNCHANGED lock_file
          ELSE IF how = "invalid"
          THEN /\ lpc' = [lpc EXCEPT ![p] = "cookie_invalid"]
               /\ lock_file' = RemoveIfExists(lock_file, removed)
          ELSE lpc' = [lpc EXCEPT ![p] = "verify_raised"] /\ UNCHANGED lock_file
    /\ UNCHANGED <<storeVars, allVars, poolVars, runVars, gateVars, apiVars, resVars, dashVars>>

\* collector.py:381-421: the pool runs to its summary or an exception is
\* caught at line 410; the finally clause removes the lock file.
LockPool(p) ==
    /\ lpc[p] = "pool"
    /\ \E how \in {"completed", "pool_error"}, removed \in BOOLEAN :
          /\ lpc' = [lpc EXCEPT ![p] = how]
          /\ lock_file' = RemoveIfExists(lock_file, removed)
    /\ UNCHANGED <<storeVars, allVars, poolVars, runVars, gateVars, apiVars, resVars, dashVars>>

\* 300 seconds pass since the lock file was written.
LockAges ==
    /\ program = "lock"
    /\ lock_file # NoFile
    /\ lock_file[1].age = "fresh"
    /\ lock_file' = <<[lock_file[1] EXCEPT !.age = "stale"]>>
    /\ UNCHANGED <<storeVars, allVars, poolVars, runVars, gateVars, apiVars, resVars, dashVars, lpc>>

\* The scheduler starts the collector again after a run has ended.
LockRestart(p) ==
    /\ program = "lock"
    /\ lpc[p] \in Ended
    /\ lpc' = [lpc EXCEPT ![p] = "start"]
    /\ UNCHANGED <<storeVars, allVars, poolVars, runVars, gateVars, apiVars, resVars, dashVars, lock_file>>

LockNext ==
    \/ \E p \in Procs :
          \/ LockExists(p)
          \/ LockInspect(p)
          \/ LockCreate(p)
          \/ LockVerify(p)
          \/ LockPool(p)
          \/ LockRestart(p)
    \/ LockAges

\* ------------------------------------------------- dashboard analyzer
\* Snapshots a call of calculate_playtime_changes is given.
MaxSnapshots == 3

\* The 'games' list of a snapshot's games_data: the games of a profile, one
\* per appid, each with a cumulative playtime.
DashGame(appid, playtime) == [appid |-> appid, playtime_forever |-> playtime]
DashGameLists ==
    {<<>>} \cup {<<DashGame(a, p)>> : a \in Apps, p \in Playtimes}
           \cup {<<DashGame(1, p), DashGame(2, q)>> : p \in Playtimes, q \in Playtimes}

\* The lists of n snapshots, sorted by time: the snapshot at position i was
\* taken at time i.
DashSnapshotLists(n) ==
    {[i \in 1..n |-> [snapshot_time |-> i, games |-> g[i]]] :
        g \in [1..n -> DashGameLists]}

\* app.py:137-144, 149: dict.get(appid, {}).get('playtime_forever', 0) on the
\* dict built from a game list.
DictPlaytime(games, appid) ==
    LET at == {j \in 1..Len(games) : games[j].appid = appid}
    IN IF at = {} THEN 0
       ELSE games[CHOOSE j \in at : \A k \in at : k <= j].playtime_forever

\* app.py:157: curr_game.get('name', f'Game {appid}')
DashName(appid) ==
    IF AppName(appid) = None THEN "Game " \o ToString(appid) ELSE AppName(appid)

\* app.py:147-162: the records of one pair of adjacent snapshots.
PairRecords(prev_snapshot, curr_snapshot) ==
    LET curr_games == curr_snapshot.games
        rec == [k \in 1..Len(curr_games) |->
                   [game_id           |-> curr_games[k].appid,
                    game_name         |-> DashName(curr_games[k].appid),
                    start_time        |-> prev_snapshot.snapshot_time,
                    end_time          |-> curr_snapshot.snapshot_time,
                    playtime_increase |->
                        curr_games[k].playtime_forever
                            - DictPlaytime(prev_snapshot.games, curr_games[k].appid),
                    total_playtime    |-> curr_games[k].playtime_forever]]
        Grew(r) == r.playtime_increase > 0
    IN SelectSeq(rec, Grew)

\* app.py:133-162: the loop from position i on.
RECURSIVE ChangesFrom(_, _)
ChangesFrom(snaps, i) ==
    IF i > Len(snaps) THEN <<>>
    ELSE PairRecords(snaps[i - 1], snaps[i]) \o ChangesFrom(snaps, i + 1)

\* frontend/app.py, GameplayAnalyzer.calculate_playtime_changes
calculate_playtime_changes(snaps) ==
    IF Len(snaps) < 2 THEN <<>> ELSE ChangesFrom(snaps, 2)

DashIdle ==
    /\ dash_snapshots = <<>>
    /\ dash_records = <<>>
    /\ dash_pc = "none"

DashInit ==
    /\ \E n \in 0..MaxSnapshots : dash_snapshots \in DashSnapshotLists(n)
    /\ dash_records = <<>>
    /\ dash_pc = "none"

\* The dashboard calls calculate_playtime_changes(snapshots).
CalculateChanges ==
    /\ program = "dashboard"
    /\ dash_pc = "none"
    /\ dash_records' = calculate_playtime_changes(dash_snapshots)
    /\ dash_pc' = "returned"
    /\ UNCHANGED <<storeVars, allVars, poolVars, runVars, gateVars, apiVars, lockVars,
                   resVars, dash_snapshots>>

\* ------------------------------------------------- the change gate alone
GateIdle ==
    /\ gate_old = <<>>
    /\ gate_new = <<>>
    /\ gate_out = "none"

\* Game lists a scrape may return, as is_data_changed reads them: games with
\* or without an 'appid' key, playtimes 0.10, 0.11 and 0.12 hours.
GateGames ==
    {ScrapedGame(a, p) : a \in {1, 2, NoAppid}, p \in {10, 11, 12}}
\* The games of a profile are distinct: no appid comes twice.
GateLists ==
    {<<>>} \cup {<<g>> : g \in GateGames}
           \cup {<<p[1], p[2]>> : p \in {q \in GateGames \X GateGames :
                                          q[1].appid # q[2].appid \/ q[1].appid = NoAppid}}

\* What get_last_snapshot may return: None, or the games_data of a row that
\* save_snapshot wrote (collector.py:183-187).
GateSnapshots ==
    {<<>>} \cup {<<[game_count |-> Len(l), recent_games |-> l]>> : l \in GateLists}

GateInit ==
    /\ gate_old \in GateSnapshots
    /\ gate_new \in GateLists
    /\ gate_out = "none"

\* collector.py:252: is_data_changed(last_snapshot, games_data) is called.
Gate ==
    /\ program = "gate"
    /\ gate_out = "none"
    /\ gate_out' = IF is_data_changed_raises(gate_old, gate_new) THEN "raised"
                   ELSE IF is_data_changed(gate_old, gate_new) THEN "changed"
                   ELSE "unchanged"
    /\ UNCHANGED <<storeVars, allVars, poolVars, runVars, moreVars, gate_old, gate_new>>

\* ---------------------------------------------------------- specifications
vars == <<storeVars, allVars, poolVars, runVars, gateVars, moreVars>>

\* The stores and the two inference implementations.
\* The variables of the deployments that do not run.
MoreIdle ==
    /\ response = <<>>
    /\ LockInit
    /\ ResIdle
    /\ DashIdle

OthersIdle ==
    /\ run_players = <<>>
    /\ resolve_answer = NoneId
    /\ RunIdle
    /\ GateIdle
    /\ MoreIdle

Init == program \in {"sqlite", "pg"} /\ StoreInit /\ AllInit /\ PoolInit /\ OthersIdle
Next == StoreNext
Spec == Init /\ [][Next]_vars

\* The stores alone, as their collectors fill them.
SpecStore == Init /\ [][InsertBatch]_vars

\* The file export: the SQLite store is filled, then infer_sessions_for_all
\* runs over it.
InitAll == program = "sqlite" /\ StoreInit /\ AllInit /\ PoolInit /\ OthersIdle
NextAll == InsertBatch \/ AllNext
SpecAll == InitAll /\ [][NextAll]_vars

\* The collection side: the polling and run-once collectors appending to
\* their store, and the worker-pool collector.
InitCollect ==
    /\ program \in {"sqlite", "pg", "pool"}
    /\ StoreInit /\ AllInit /\ PoolInit /\ OthersIdle
NextCollect == InsertBatch \/ PoolNext
SpecCollect == InitCollect /\ [][NextCollect]_vars

\* The polling collector (collector.run_collector, SQLite store) and the
\* run-once collector (backend_run_once_pg.main, PostgreSQL store).
InitRun ==
    /\ program \in {"poller", "runonce"}
    /\ StoreInit /\ AllInit /\ PoolInit /\ GateIdle /\ RunInit
    /\ response = <<>> /\ LockInit /\ ResInit /\ DashIdle
SpecRun == InitRun /\ [][RunNext]_vars

\* Session inference on a store that its collector has filled for one
\* subject over two cycles: the analyzer on the SQLite store, the served API
\* on the PostgreSQL store.
InitInfer ==
    /\ program \in {"sqlite", "pg"}
    /\ table \in AfterCycles({<<>>}, program = "sqlite", <<<<7, 1>>>>, Apps, 2)
    /\ called = NoCall /\ snapshots = <<>> /\ sessions = <<>>
    /\ AllInit /\ PoolInit /\ OthersIdle
NextInfer == InferSessions \/ InferSessionsRaises \/ ApiSessions \/ ApiSessionsRaises
SpecInfer == InitInfer /\ [][NextInfer]_vars

\* Session inference on a store filled over two cycles for one subject whose
\* games were reported under changing names.
InitNames ==
    /\ program \in {"sqlite", "pg"}
    /\ table \in AfterInsertOf(AfterInsertOf({<<>>}, program = "sqlite", <<7, 1>>,
                                        NamedGameLists),
                            program = "sqlite", <<7, 1>>, NamedGameLists)
    /\ called = NoCall /\ snapshots = <<>> /\ sessions = <<>>
    /\ AllInit /\ PoolInit /\ OthersIdle
SpecNames == InitNames /\ [][NextInfer]_vars

\* The file export (export_sessions.main) on the SQLite store that the
\* polling collector has filled for two subjects over two cycles.
InitExport ==
    /\ program = "sqlite"
    /\ table \in AfterCycles({<<>>}, TRUE, <<<<7, 1>>, <<7, 2>>>>, {1}, 2)
    /\ called = NoCall /\ snapshots = <<>> /\ sessions = <<>>
    /\ AllInit /\ PoolInit /\ OthersIdle
SpecExport == InitExport /\ [][AllNext]_vars

\* The served API (frontend_api.get_sessions) on the PostgreSQL store that
\* the run-once collector has filled for one subject over three runs.
InitServe ==
    /\ program = "pg"
    /\ table \in AfterCycles({<<>>}, FALSE, <<<<7, 1>>>>, Apps, 3)
    /\ called = NoCall /\ snapshots = <<>> /\ sessions = <<>>
    /\ AllInit /\ PoolInit /\ OthersIdle
SpecServe == InitServe /\ [][ServeNext]_vars

\* Collector processes (backend/collector.main) started against one lock path.
InitLock ==
    /\ program = "lock"
    /\ StoreInit /\ AllInit /\ PoolInit /\ OthersIdle
SpecLock == InitLock /\ [][LockNext]_vars

\* The dashboard analyzer on its own.
InitDash ==
    /\ program = "dashboard"
    /\ StoreInit /\ AllInit /\ PoolInit /\ GateIdle
    /\ run_players = <<>> /\ resolve_answer = NoneId /\ RunIdle
    /\ response = <<>> /\ LockInit /\ ResIdle /\ DashInit
SpecDash == InitDash /\ [][CalculateChanges]_vars

\* The change gate of the worker-pool collector on its own.
InitGate ==
    /\ program = "gate"
    /\ StoreInit /\ AllInit /\ PoolInit /\ GateInit /\ MoreIdle
    /\ run_players = <<>> /\ resolve_answer = NoneId /\ RunIdle
SpecGate == InitGate /\ [][Gate]_vars


\* ------------------------------------------------- claims on inference
\* A call of either inference implementation has returned.
Inferred == called.op \in {"infer", "api"} /\ ~called.raised

\* A capture time as the returned sessions carry it: a datetime from the
\* analyzer, its ISO text from the served API.
Stamp(t) == IF called.op = "api" THEN isoformat(t) ELSE t

\* The returned sessions of one app, in the order returned.
SessionsOf(ss, appid) ==
    LET Same(x) == x.appid = appid IN SelectSeq(ss, Same)

\* The positions i of an app's partition whose pair (i-1, i) increased.
IncreasingPairs(xs) ==
    {i \in 2..Len(xs) : xs[i].playtime_forever > xs[i - 1].playtime_forever}

\* Session x is the one the pair (xs[i-1], xs[i]) should emit.
IsSessionOfPair(x, xs, i) ==
    /\ x.window_start_utc = Stamp(xs[i - 1].captured_at_utc)
    /\ x.window_end_utc = Stamp(xs[i].captured_at_utc)
    /\ x.minutes_delta = xs[i].playtime_forever - xs[i - 1].playtime_forever

\* The positions of ss holding a session with the window of the pair (i-1, i).
WithWindowOfPair(ss, xs, i) ==
    {k \in 1..Len(ss) :
        /\ ss[k].window_start_utc = Stamp(xs[i - 1].captured_at_utc)
        /\ ss[k].window_end_utc = Stamp(xs[i].captured_at_utc)}

\* C1: every adjacent same-item pair whose playtime increased has exactly one
\* session, whose delta is the difference of the two playtimes and whose
\* window runs from the earlier to the later capture time.
C1_OneSessionPerIncrease ==
    Inferred =>
        \A a \in Apps :
            LET xs == AppSnaps(snapshots, a)
                ss == SessionsOf(sessions, a)
            IN \A i \in IncreasingPairs(xs) :
                  /\ Cardinality(WithWindowOfPair(ss, xs, i)) = 1
                  /\ \A k \in WithWindowOfPair(ss, xs, i) :
                        /\ IsSessionOfPair(ss[k], xs, i)
                        /\ ss[k].steamid = called.steamid

C1_Witness ==
    /\ called.op = "api" /\ ~called.raised
    /\ \E a \in Apps : Cardinality(IncreasingPairs(AppSnaps(snapshots, a))) = 2
    /\ Len(sessions) = 2

\* C2: a flat or decreasing pair emits no session, every emitted session has
\* a delta of at least 1, and the sessions of an item are as many as its
\* increasing pairs.
C2_NoSessionWithoutIncrease ==
    Inferred =>
        /\ \A k \in 1..Len(sessions) : sessions[k].minutes_delta >= 1
        /\ \A a \in Apps :
              LET xs == AppSnaps(snapshots, a)
                  ss == SessionsOf(sessions, a)
              IN /\ Len(ss) = Cardinality(IncreasingPairs(xs))
                 /\ \A i \in (2..Len(xs)) \ IncreasingPairs(xs) :
                       WithWindowOfPair(ss, xs, i) = {}

C2_Witness ==
    /\ called.op = "infer" /\ ~called.raised
    /\ \E a \in Apps :
          LET xs == AppSnaps(snapshots, a)
          IN /\ Len(xs) = 3
             /\ xs[2].playtime_forever = xs[1].playtime_forever
             /\ xs[3].playtime_forever < xs[2].playtime_forever
    /\ sessions = <<>>

\* C3: a pair that follows a pair without a session is still measured from
\* its immediate predecessor: after a decrease the next session has the
\* decreased value as its base and the decreased snapshot's time as its start.
C3_PrevAlwaysAdvances ==
    Inferred =>
        \A a \in Apps :
            LET xs == AppSnaps(snapshots, a)
                ss == SessionsOf(sessions, a)
            IN \A i \in 3..Len(xs) :
                  (/\ xs[i - 1].playtime_forever <= xs[i - 2].playtime_forever
                   /\ xs[i].playtime_forever > xs[i - 1].playtime_forever)
                  => /\ \E k \in 1..Len(ss) : IsSessionOfPair(ss[k], xs, i)
                     /\ \A k \in 1..Len(ss) :
                           ss[k].window_end_utc = Stamp(xs[i].captured_at_utc)
                           => IsSessionOfPair(ss[k], xs, i)

\* Playtimes 1, 0, 2: one session, of delta 2, from the second snapshot.
C3_Witness ==
    /\ called.op = "infer" /\ ~called.raised
    /\ Len(snapshots) = 3
    /\ \A i \in 1..3 : snapshots[i].appid = 1
    /\ snapshots[1].playtime_forever = 1
    /\ snapshots[2].playtime_forever = 0
    /\ snapshots[3].playtime_forever = 2
    /\ Len(sessions) = 1
    /\ sessions[1].minutes_delta = 2
    /\ sessions[1].window_start_utc = snapshots[2].captured_at_utc

\* C4: an item with fewer than 2 snapshots has no session, and a subject
\* without snapshots gets the empty session list.
C4_FewerThanTwoSnapshots ==
    Inferred =>
        /\ \A a \in Apps :
              Len(AppSnaps(snapshots, a)) < 2 => SessionsOf(sessions, a) = <<>>
        /\ snapshots = <<>> => sessions = <<>>

\* One subject has no snapshot at all while the store holds another's, and
\* later an item has exactly one.
C4_Witness ==
    /\ Inferred
    /\ table # <<>>
    /\ \/ snapshots = <<>>
       \/ \E a \in Apps : Len(AppSnaps(snapshots, a)) = 1 /\ Len(snapshots) = 3

\* The list with the snapshots of the items other than appid that stand at
\* the positions of drop removed, and the playtime of the others set to v.
OtherItemsChanged(snaps, appid, drop, v) ==
    LET Kept(i) == snaps[i].appid = appid \/ i \notin drop
        idx == {i \in 1..Len(snaps) : Kept(i)}
        Nth(k) == CHOOSE i \in idx : Cardinality({j \in idx : j < i}) = k - 1
    IN [k \in 1..Cardinality(idx) |->
          IF snaps[Nth(k)].appid = appid THEN snaps[Nth(k)]
          ELSE [snaps[Nth(k)] EXCEPT !.playtime_forever = v]]

\* What the implementation that was called returns for a snapshot list.
InferAs(op, steamid, snaps) ==
    IF op = "api" THEN _infer_sessions_from_snapshots(snaps)
    ELSE infer_sessions(steamid, snaps)

\* C5: the sessions of an item are those of the item's own snapshots: any
\* list that agrees on the item's snapshots and differs in the other items'
\* snapshots (some removed, their values changed) yields the same sessions
\* for the item, and so does the list of the item's snapshots alone.
C5_ItemsIndependent ==
    Inferred =>
        \A a \in Apps :
            /\ SessionsOf(sessions, a)
                  = InferAs(called.op, called.steamid, AppSnaps(snapshots, a))
            /\ \A drop \in SUBSET (1..Len(snapshots)), v \in Playtimes :
                  SessionsOf(InferAs(called.op, called.steamid,
                                     OtherItemsChanged(snapshots, a, drop, v)), a)
                     = SessionsOf(sessions, a)

\* Another item's snapshot, with a larger playtime, stands between the two
\* snapshots of an item that has a session.
C5_Witness ==
    /\ called.op = "infer" /\ ~called.raised
    /\ Len(snapshots) = 3
    /\ snapshots[1].appid = snapshots[3].appid
    /\ snapshots[2].appid # snapshots[1].appid
    /\ snapshots[2].playtime_forever > snapshots[3].playtime_forever
    /\ Len(sessions) = 1

\* ------------------------------------------------ claims on the batch
\* The sessions of one subject in a session list.
SessionsOfSubject(ss, steamid) ==
    LET Same(x) == x.steamid = steamid IN SelectSeq(ss, Same)

\* C6: when infer_sessions_for_all ends, by returning or by a subject's
\* failure, the sessions of every subject of the batch whose own read did not
\* fail are in the list it returns.
C6_BatchIsolatesFailures ==
    all_pc \in {"returned", "raised"} =>
        \A k \in 1..Len(all_steamids) :
            LET s == all_steamids[k]
            IN (/\ s \notin all_failed
                /\ \E snaps \in fetch_snapshots_ordered(table, s) :
                      infer_sessions(s, snaps) # <<>>)
               => /\ all_pc = "returned"
                  /\ \E snaps \in fetch_snapshots_ordered(table, s) :
                        SessionsOfSubject(all_sessions, s) = infer_sessions(s, snaps)

\* ------------------------------------------ claims on the worker pool
\* The state of the units other than u is the same after the step.
OthersUnaffected(u) ==
    \A v \in Units \ {u} :
        /\ wpc'[v] = wpc[v]
        /\ conn'[v] = conn[v]
        /\ games_data'[v] = games_data[v]
        /\ outcome'[v] = outcome[v]
        /\ result'[v] = result[v]
        /\ game_snapshots'[v] = game_snapshots[v]

\* C7: only players with a steamid are counted, each after its unit has
\* completed and each in exactly one of the two counters; when main logs the
\* summary every submitted player has completed and has been counted, and
\* success_count + fail_count is the number of submitted players.
C7_EveryPlayerCountedOnce ==
    /\ counted \subseteq Submitted
    /\ \A u \in counted : wpc[u] = "done"
    /\ success_count + fail_count = Cardinality(counted)
    /\ main_pc = "done" =>
          /\ counted = Submitted
          /\ success_count + fail_count = Cardinality(Submitted)

\* The summary of a run in which one player failed and the other did not.
C7_Witness ==
    /\ main_pc = "done"
    /\ success_count = 1
    /\ fail_count = 1
    /\ \E u \in Submitted : outcome[u] = "error"
    /\ \E u \in Submitted : outcome[u] = "saved"

\* C8: when main counts a player whose save_snapshot returned False, it is
\* the failure counter that grows and not the success counter.
C8_SaveFailureCountedAsFailure ==
    [][\A u \in Units :
          (u \in counted' \ counted /\ outcome[u] = "save_failed")
          => /\ fail_count' = fail_count + 1
             /\ success_count' = success_count]_vars

\* C9: a step of save_snapshot that does not store the snapshot leaves the
\* rows of every player as they were, returns False to collect_player_data
\* rather than raising, and leaves the other units as they were.
C9_SaveFailureRolledBack ==
    [][\A u \in Units :
          (wpc[u] = "save" /\ wpc'[u] = "done" /\ outcome'[u] # "saved")
          => /\ game_snapshots' = game_snapshots
             /\ outcome'[u] = "save_failed"
             /\ OthersUnaffected(u)]_vars

\* C10: a row is written for a player only from a scrape that returned
\* games; a unit whose scrape returned no games ends at once with every
\* player's rows unchanged; an insert_snapshot_batch with an empty game list
\* leaves the table unchanged.
C10_NoDataWritesNothing ==
    [][/\ \A u \in Units :
             game_snapshots'[u] # game_snapshots[u] => games_data[u] # <<>>
       /\ \A u \in Units :
             (wpc[u] = "scrape" /\ outcome'[u] = "nodata")
             => game_snapshots' = game_snapshots /\ wpc'[u] = "done"
       /\ (called'.op = "insert" /\ called'.rows = 0) => table' = table]_vars

\* In a later run a player who has a stored row returned no games, and the
\* row is all that is stored.
C10_Witness ==
    \E u \in Submitted :
        /\ outcome[u] = "nodata"
        /\ wpc[u] = "done"
        /\ Len(game_snapshots[u]) = 1

\* ---------------------------- claims on the polling and run-once collectors
\* C11: a step in which get_owned_games fails for a subject does not end the
\* run: the store is left as it was and the run goes on with the next
\* subject, the sleep or the normal end.
C11_UnavailableSourceNotFatal ==
    [][(run_pc = "fetch" /\ run_error' = "fetch")
       => (run_pc' \in {"fetch", "sleep", "done"} /\ table' = table)]_vars

\* Some configured player has a vanity URL and no steamid.
VanityOnly ==
    \E k \in 1..Len(run_players) :
        ~Truthy(run_players[k].steamid) /\ run_players[k].vanity_url # None

\* C12: when a player with only a vanity URL cannot be resolved, the run has
\* ended in _ensure_steamids as soon as it has left the setup: no
\* get_owned_games call was made and nothing was inserted.
C12_UnresolvedVanityRaisesFirst ==
    (VanityOnly /\ ~Truthy(resolve_answer) /\ run_pc # "setup")
    => /\ run_pc = "raised"
       /\ run_error = "setup"
       /\ fetch_calls = 0
       /\ table = <<>>
       /\ called = NoCall

\* The unresolved player comes after one that has a steamid, and still no
\* fetch was made.
C12_Witness ==
    /\ run_pc = "raised"
    /\ run_error = "setup"
    /\ Len(run_players) = 2
    /\ Truthy(run_players[1].steamid)
    /\ run_players[2].vanity_url # None
    /\ ~Truthy(resolve_answer)
    /\ fetch_calls = 0

\* C13: the stop signal changes nothing but the stop flag; a fetch that
\* returns for a subject that is not the last of its cycle is followed by the
\* fetch of the next subject, whether or not the flag is set; the for loop is
\* left only after the last subject (or by an exception of get_owned_games);
\* and no polling cycle starts while the flag is set.
C13_StopIsCooperative ==
    [][/\ stop_flag' # stop_flag
          => /\ stop_flag'
             /\ UNCHANGED <<storeVars, run_pc, run_steamids, run_i, run_cycles,
                            fetch_calls, run_error>>
       /\ (fetch_calls' # fetch_calls /\ run_error' = "none"
              /\ run_i < Len(run_steamids))
          => (run_pc' = "fetch" /\ run_i' = run_i + 1)
       /\ (run_pc = "fetch" /\ run_pc' # "fetch")
          => (run_error' = "fetch" \/ run_i = Len(run_steamids))
       /\ run_cycles' # run_cycles => ~stop_flag]_vars

\* The signal arrived before the first of two subjects was fetched; both
\* were fetched, the second one's games were stored, and the collector
\* stopped without a second cycle.
C13_Witness ==
    /\ run_pc = "stopped"
    /\ stop_seen = [pc |-> "fetch", i |-> 1]
    /\ Len(run_steamids) = 2
    /\ fetch_calls = 2
    /\ run_cycles = 1
    /\ RowsOf(table, run_steamids[2]) # <<>>

\* C14: a unit that is scraping, comparing or saving holds an open
\* connection of its own collector; a unit that has ended, on whatever path,
\* holds no open connection; a unit that has not started holds none.
C14_ConnectionPerUnit ==
    \A u \in Units :
        /\ wpc[u] \in {"scrape", "compare", "save"} => conn[u] \in {"open", "aborted"}
        /\ wpc[u] = "done" => conn[u] # "open"
        /\ wpc[u] \in {"none", "queued"} => conn[u] = "none"

\* One unit ended by an exception out of save_snapshot with its connection
\* closed, while another ended on a failed connect.
C14_Witness ==
    /\ \E u \in Units : outcome[u] = "save_raised" /\ conn[u] = "closed"
    /\ \E v \in Units : wpc[v] = "done" /\ outcome[v] = "error" /\ conn[v] = "none"

\* ------------------------------------------ claims on the gate in the pool
\* The newest stored snapshot of the player of unit u.
Newest(u) == get_last_snapshot(game_snapshots[u], TRUE)

\* The gate's verdict on the scraped games of unit u against that snapshot.
ChangedAgainstNewest(u) == is_data_changed(Newest(u), games_data[u])

\* One snapshot holding the scraped games of unit u is appended to the rows
\* of its player, and nothing else is written.
AppendsOne(u) ==
    game_snapshots' = [game_snapshots EXCEPT ![u] =
        Append(@, [game_count |-> Len(games_data[u]), recent_games |-> games_data[u]])]

\* Two game lists are equal under the gate: as many games, and every game of
\* the second has a game of the same appid in the first within 0.01 hour.
SameUnderGate(old_games, new_games) ==
    /\ Len(old_games) = Len(new_games)
    /\ \A i \in 1..Len(new_games) : \E j \in 1..Len(old_games) :
          /\ old_games[j].appid = new_games[i].appid
          /\ Abs(old_games[j].playtime_total - new_games[i].playtime_total) <= 1

NoConsecutiveEqual ==
    \A u \in Units : \A k \in 1..(Len(game_snapshots[u]) - 1) :
        ~SameUnderGate(game_snapshots[u][k].recent_games,
                       game_snapshots[u][k + 1].recent_games)

\* C16 as stated: a unit that ends as unchanged had data the gate reports as
\* unchanged against the newest stored snapshot and leaves the store as it
\* was; a unit that went on to save_snapshot appends exactly one snapshot
\* holding its games when the gate reports a change against the newest stored
\* snapshot, and leaves the store as it was otherwise; and no two consecutive
\* snapshots of a player are equal under the gate.
C16_GateIsPreFilter ==
    [][/\ \A u \in Units :
             (wpc[u] = "compare" /\ wpc'[u] = "done" /\ outcome'[u] = "unchanged")
             => (~ChangedAgainstNewest(u) /\ game_snapshots' = game_snapshots)
       /\ \A u \in Units :
             (wpc[u] = "save" /\ wpc'[u] = "done")
             => IF ChangedAgainstNewest(u) THEN AppendsOne(u)
                ELSE game_snapshots' = game_snapshots
       /\ NoConsecutiveEqual']_vars

\* C16, amended: as above, but a unit that went on to save_snapshot appends
\* its snapshot exactly when save_snapshot succeeds, which happens only when
\* the gate reports a change against the newest stored snapshot; when
\* save_snapshot fails the store is left as it was.
C16_GateIsPreFilterWhenSaved ==
    [][/\ \A u \in Units :
             (wpc[u] = "compare" /\ wpc'[u] = "done" /\ outcome'[u] = "unchanged")
             => (~ChangedAgainstNewest(u) /\ game_snapshots' = game_snapshots)
       /\ \A u \in Units :
             (wpc[u] = "save" /\ wpc'[u] = "done")
             => IF outcome'[u] = "saved"
                THEN ChangedAgainstNewest(u) /\ AppendsOne(u)
                ELSE game_snapshots' = game_snapshots
       /\ NoConsecutiveEqual']_vars

\* One player has two snapshots, both saved after a reported change, and
\* another has one and was reported unchanged in the latest run.
C16_Witness ==
    /\ \E u \in Units : Len(game_snapshots[u]) = 2 /\ outcome[u] = "saved"
    /\ \E v \in Units : Len(game_snapshots[v]) = 1 /\ outcome[v] = "unchanged"

\* ------------------------------------------------- claims on the gate
\* The games of the previous snapshot.
OldGames == gate_old[1].recent_games

\* Every fresh game has a game of the same appid in the previous snapshot
\* whose playtime is within 0.01 hour of its own.
EveryGameHasCounterpart ==
    \A i \in 1..Len(gate_new) :
        \E j \in 1..Len(OldGames) :
            /\ OldGames[j].appid = gate_new[i].appid
            /\ Abs(OldGames[j].playtime_total - gate_new[i].playtime_total) <= 1

\* C15: the gate reports no change when a previous snapshot exists with as
\* many games as the fresh data and every fresh game has a counterpart, and
\* reports a change in every other case.
C15_GateReportsChangeExactly ==
    gate_out # "none" =>
        IF gate_old # <<>> /\ Len(OldGames) = Len(gate_new) /\ EveryGameHasCounterpart
        THEN gate_out = "unchanged"
        ELSE gate_out = "changed"

\* C27: is_data_changed returns a boolean, and does not raise, for every
\* previous snapshot that save_snapshot can have written and every game list
\* a scrape can return, games without an appid included.
C27_GateNeverRaises ==
    gate_out \in {"none", "changed", "unchanged"}

\* ------------------------------------------------- claims on the store
\* Row r holds game g of subject steamid.
RowHolds(r, steamid, g) ==
    /\ r.steamid = steamid
    /\ r.appid = g.appid
    /\ r.game_name = g.name
    /\ r.playtime_forever = g.playtime_forever

\* C17: no step changes or removes a stored row; a step that calls
\* insert_snapshot_batch adds, after the stored rows, one row per game of its
\* batch, in the batch's order, all with the call's subject and one capture
\* time, whatever the table already holds.
C17_AppendOnly ==
    [][/\ Len(table') >= Len(table)
       /\ SubSeq(table', 1, Len(table)) = table
       /\ (called'.op = "insert" /\ (called' # called \/ table' # table)) =>
             \E games \in GameLists(called'.steamid) :
                 /\ Len(games) = called'.rows
                 /\ Len(table') = Len(table) + Len(games)
                 /\ \A i \in 1..Len(games) :
                       /\ RowHolds(table'[Len(table) + i], called'.steamid, games[i])
                       /\ table'[Len(table) + i].captured_at_utc
                              = table'[Len(table) + 1].captured_at_utc]_vars

\* The same one-game batch was inserted twice for a subject: the table holds
\* it twice, with two capture times.
C17_Witness ==
    /\ called.op = "insert"
    /\ called.rows = 1
    /\ Len(table) = 2
    /\ table[1].steamid = table[2].steamid
    /\ table[1].appid = table[2].appid
    /\ table[1].playtime_forever = table[2].playtime_forever
    /\ table[1].captured_at_utc # table[2].captured_at_utc

\* A stored row as a fetch returns it: the SQLite store parses the capture
\* time back from its text.
AsFetched(r) ==
    IF program = "sqlite" THEN [r EXCEPT !.captured_at_utc = fromisoformat(@)] ELSE r

\* C18: the list a fetch_snapshots_ordered(steamid) call returned holds
\* exactly the stored rows of that subject, and it is sorted by appid and,
\* within an appid, by capture time ascending.
C18_FetchSortedByItemThenTime ==
    (called.op \in {"infer", "api"} /\ ~called.raised) =>
        LET rows == RowsOf(table, called.steamid)
            n == Len(rows)
        IN /\ Len(snapshots) = n
           /\ \E p \in Permutations(1..n) :
                 \A i \in 1..n : snapshots[i] = AsFetched(rows[p[i]])
           /\ \A i, j \in 1..n :
                 i < j =>
                    \/ snapshots[i].appid < snapshots[j].appid
                    \/ /\ snapshots[i].appid = snapshots[j].appid
                       /\ snapshots[i].captured_at_utc <= snapshots[j].captured_at_utc

\* ------------------------------------------ claims on the session order
\* The position of the first snapshot of an app in a fetched list.
FirstPos(snaps, appid) ==
    CHOOSE i \in 1..Len(snaps) :
        /\ snaps[i].appid = appid
        /\ \A j \in 1..(i - 1) : snaps[j].appid # appid

SortedByKey(ss) ==
    \A i, j \in 1..Len(ss) : i < j => ~SessionKeyLess(ss[j], ss[i])

\* C20: the list export_sessions.main writes, and the list
\* _infer_sessions_from_snapshots builds, are sorted by subject, then item,
\* then window start.
C20_ExportSorted ==
    /\ all_pc = "returned" => SortedByKey(export_sessions_to_json(all_sessions))
    /\ (called.op = "api" /\ ~called.raised) => SortedByKey(sessions)

\* ------------------------------------------------ claims on the served API
\* The sets of positions of ss that, taken in order, give the list rs.
KeptPositions(ss, rs) ==
    {K \in SUBSET (1..Len(ss)) :
        /\ Cardinality(K) = Len(rs)
        /\ \A k \in K : rs[Cardinality({j \in K : j <= k})] = ss[k]}

\* C21: a get_sessions call with a limit L > 0 returns at most L sessions;
\* when more than L exist it returns L of them, and no session it dropped
\* has a later window_start than one it returned; with a limit of None or
\* not above 0 it returns every session.
C21_LimitKeepsLatest ==
    (called.op = "get_sessions" /\ ~called.raised) =>
        IF called.limit # NoLimit /\ called.limit[1] > 0
        THEN /\ Len(response) <= called.limit[1]
             /\ Len(sessions) <= called.limit[1] => response = sessions
             /\ Len(sessions) > called.limit[1] =>
                   /\ Len(response) = called.limit[1]
                   /\ \E K \in KeptPositions(sessions, response) :
                         \A d \in (1..Len(sessions)) \ K, r \in K :
                             ~StrLess(sessions[r].window_start_utc,
                                      sessions[d].window_start_utc)
        ELSE response = sessions

\* ------------------------------------------------ claims on the game name
\* A name that is there: neither None nor empty.
Present(name) == name # None /\ name # ""

\* C22: every session returned has a non-empty game name: the name of the
\* later snapshot of its pair if that has one, else the name of the earlier
\* snapshot if that has one, else "appid <id>".
C22_NameFallback ==
    Inferred =>
        /\ \A k \in 1..Len(sessions) : Present(sessions[k].game_name)
        /\ \A a \in Apps :
              LET xs == AppSnaps(snapshots, a)
                  ss == SessionsOf(sessions, a)
              IN /\ Len(ss) = Cardinality(IncreasingPairs(xs))
                 /\ \A i \in IncreasingPairs(xs) : \E k \in 1..Len(ss) :
                       /\ IsSessionOfPair(ss[k], xs, i)
                       /\ ss[k].game_name =
                             IF Present(xs[i].game_name) THEN xs[i].game_name
                             ELSE IF Present(xs[i - 1].game_name) THEN xs[i - 1].game_name
                             ELSE "appid " \o ToString(a)

\* The later snapshot has no name and the earlier one has: the session
\* carries the earlier snapshot's name.
C22_Witness ==
    /\ called.op = "infer" /\ ~called.raised
    /\ Len(snapshots) = 2
    /\ snapshots[1].game_name = "Portal"
    /\ snapshots[2].game_name = None
    /\ Len(sessions) = 1
    /\ sessions[1].game_name = "Portal"

\* ------------------------------------------------ claims on the lock file
\* C23: at most one collector process is between creating the lock file and
\* removing it.
C23_LockExcludes ==
    Cardinality({p \in Procs : lpc[p] \in Collecting}) <= 1

\* C24: a step by which main ends after it has created the lock file leaves
\* no lock file behind.
C24_LockRemovedOnEveryExit ==
    [][\A p \in Procs :
          (lpc[p] \in Collecting /\ lpc'[p] \in Ended) => lock_file' = NoFile]_vars

\* ---------------------------------- claims on the polling collector's resources
\* C25: when run_collector has ended, by the stop signal or by an exception
\* of the alias resolution, a fetch or an insert, the store connection and
\* the API client it opened are closed.
C25_ResourcesReleased ==
    (Polling /\ run_pc \in {"stopped", "raised"})
    => (~storage_open /\ ~client_open)

\* ------------------------------------------- claims on the dashboard analyzer
\* The records returned for game a between the snapshots i - 1 and i.
RecordsFor(a, i) ==
    LET Mine(r) == /\ r.game_id = a
                   /\ r.start_time = dash_snapshots[i - 1].snapshot_time
                   /\ r.end_time = dash_snapshots[i].snapshot_time
    IN SelectSeq(dash_records, Mine)

\* Game a is in the 'games' list of snapshot i.
Observed(a, i) ==
    \E k \in 1..Len(dash_snapshots[i].games) : dash_snapshots[i].games[k].appid = a

PlaytimeIn(a, i) ==
    LET k == CHOOSE j \in 1..Len(dash_snapshots[i].games) :
                 dash_snapshots[i].games[j].appid = a
    IN dash_snapshots[i].games[k].playtime_forever

\* C26: calculate_playtime_changes returns, for a game and two adjacent
\* snapshots, one record whose playtime_increase is the difference of the
\* two playtimes when the game is in both snapshots and its playtime is
\* larger in the later one, and no record otherwise; a game that is in only
\* one of the two snapshots has no record; and every record is of an
\* adjacent pair.
C26_RecordNeedsTwoObservations ==
    dash_pc = "returned" =>
        /\ \A a \in Apps, i \in 2..Len(dash_snapshots) :
              IF /\ Observed(a, i - 1) /\ Observed(a, i)
                 /\ PlaytimeIn(a, i) > PlaytimeIn(a, i - 1)
              THEN /\ Len(RecordsFor(a, i)) = 1
                   /\ RecordsFor(a, i)[1].playtime_increase
                          = PlaytimeIn(a, i) - PlaytimeIn(a, i - 1)
              ELSE RecordsFor(a, i) = <<>>
        /\ \A k \in 1..Len(dash_records) :
              dash_records[k].end_time = dash_records[k].start_time + 1

\* ------------------------------------------- claims on inference over time
\* How many times x occurs in the list ss.
Count(ss, x) == Cardinality({k \in 1..Len(ss) : ss[k] = x})

\* What the deployment's inference returns for a subject on a table, for
\* every order in which its store may return the rows.
SessionLists(tbl, steamid) ==
    IF program = "sqlite"
    THEN {infer_sessions(steamid, snaps) :
             snaps \in fetch_snapshots_ordered(tbl, steamid)}
    ELSE {_infer_sessions_from_snapshots(snaps) :
             snaps \in pg_fetch_snapshots_ordered(tbl, steamid)}

\* The capture time of the newest row, as the deployment's sessions carry it.
NewestStamp(tbl) ==
    IF program = "sqlite" THEN fromisoformat(tbl[Len(tbl)].captured_at_utc)
    ELSE isoformat(tbl[Len(tbl)].captured_at_utc)

\* C28: when a batch is appended for a subject, every session inferred for
\* the subject before the append is inferred after it, unchanged and as
\* often, and every session inferred only after it ends at the capture time
\* of the appended batch.
C28_StableUnderAppend ==
    [][(called'.op = "insert" /\ table' # table) =>
          \A old \in SessionLists(table, called'.steamid) :
             \A new \in SessionLists(table', called'.steamid) :
                /\ \A k \in 1..Len(old) : Count(new, old[k]) = Count(old, old[k])
                /\ \A k \in 1..Len(new) :
                      Count(old, new[k]) = 0
                      => new[k].window_end_utc = NewestStamp(table')]_vars

\* A third snapshot of an app was appended to two that already gave a
\* session, and it gives a second one.
C28_Witness ==
    /\ program = "sqlite"
    /\ called.op = "insert"
    /\ Len(table) = 3
    /\ \A i \in 1..3 : table[i].steamid = called.steamid /\ table[i].appid = 1
    /\ table[1].playtime_forever < table[2].playtime_forever
    /\ table[2].playtime_forever < table[3].playtime_forever

\* The sum of minutes_delta over a session list.
RECURSIVE SumDelta(_)
SumDelta(ss) == IF ss = <<>> THEN 0 ELSE Head(ss).minutes_delta + SumDelta(Tail(ss))

\* The playtime of a snapshot sequence never strictly decreases.
NeverDecreases(xs) ==
    \A i \in 2..Len(xs) : xs[i].playtime_forever >= xs[i - 1].playtime_forever

\* C29: for an item with at least 2 snapshots, the deltas of its sessions add
\* up to at least the last playtime minus the first, and to exactly that when
\* and only when the playtime never strictly decreases along the sequence.
C29_DeltasCoverNetChange ==
    Inferred =>
        \A a \in Apps :
            LET xs == AppSnaps(snapshots, a)
                total == SumDelta(SessionsOf(sessions, a))
                net == xs[Len(xs)].playtime_forever - xs[1].playtime_forever
            IN Len(xs) >= 2 =>
                  /\ total >= net
                  /\ (total = net) <=> NeverDecreases(xs)

\* Playtimes 0, 1, 2 of one item served by the API: two sessions, adding up
\* to the net change of 2.
C29_Witness ==
    /\ called.op = "api" /\ ~called.raised
    /\ Len(snapshots) = 3
    /\ \A i \in 1..3 : snapshots[i].appid = 1 /\ snapshots[i].playtime_forever = i - 1
    /\ Len(sessions) = 2
    /\ SumDelta(sessions) = 2

\* ------------------------------------ claims on the two implementations
\* C30: on the snapshot list a store returned for a subject, the analyzer's
\* sessions, with their window bounds written as ISO texts, and the served
\* API's sessions are the same multiset: every session occurs as often in
\* one list as in the other.
C30_ImplementationsAgree ==
    Inferred =>
        LET file == export_sessions_to_json(infer_sessions(called.steamid, snapshots))
            api == _infer_sessions_from_snapshots(snapshots)
        IN /\ Len(file) = Len(api)
           /\ \A k \in 1..Len(file) : Count(api, file[k]) = Count(file, file[k])
           /\ \A k \in 1..Len(api) : Count(file, api[k]) = Count(api, api[k])

\* The analyzer returned the session of app 2 before that of app 1, which
\* the API sorts the other way round; app 2 has no name in either snapshot
\* and app 1 has one in the earlier snapshot only.
C30_Witness ==
    /\ called.op = "infer" /\ ~called.raised
    /\ Len(sessions) = 2
    /\ sessions[1].appid = 2
    /\ sessions[1].game_name = "appid 2"
    /\ sessions[2].appid = 1
    /\ sessions[2].game_name = "Portal"
    /\ \E i \in 1..Len(snapshots) :
          snapshots[i].appid = 1 /\ snapshots[i].game_name = None

====
